---------------------------- MODULE Spec2Model ----------------------------
(***************************************************************************)
(* A model of the QUIC session core of src/session.go: the event loop Run, *)
(* the frame dispatcher handlePacket, the stream table, the send scheduler *)
(* sendPacket and the close machine Close, together with the tasks that    *)
(* call into the session: the handshake goroutine spawned by NewSession,   *)
(* the demultiplexer (HandlePacket) and the application (NewStream,        *)
(* QueueStreamFrame, reading a stream).                                    *)
(*                                                                         *)
(* Two tasks run session code: "loop" (Run) and "hs" (the goroutine of     *)
(* NewSession, which calls Close when the handshake fails).  Each step of  *)
(* the model is one access to state the tasks share; code between two      *)
(* such accesses is local to its task and is folded into the step.         *)
(***************************************************************************)
EXTENDS Integers, Sequences, FiniteSets, TLC

(***************************************************************************)
(* Bounds of the model.                                                    *)
(***************************************************************************)
\* capacity of the ingress channel (1000 in NewSession, scaled down)
MaxQueue == 2
\* number of HandlePacket calls the demultiplexer makes in one run
MaxPackets == 2
\* number of QueueStreamFrame calls the application makes in one run
MaxAppFrames == 1
\* number of NewStream calls the application makes in one run
MaxNewStreams == 1
\* the negotiated idle connection lifetime, in clock ticks
IdleLifetime == 2
\* largest stream id
MaxStreamID == 3
\* the congestion window, in packets
CongestionWindow == 1

StreamIDs == 1..MaxStreamID
NoErr == "nil"

VARIABLES
    closed,               \* Session.closed
    closeChan,            \* number of signals buffered in Session.closeChan
    sendingScheduled,     \* number of signals buffered in sendingScheduled
    receivedPackets,      \* the ingress channel: a FIFO of envelopes
    streams,              \* Session.streams: absent, tombstone or a stream
    lastRcvdPacketNumber, \* Session.lastRcvdPacketNumber
    remoteAddr,           \* the connection's current remote address
    pc,                   \* position of each task: pc.loop, pc.hs
    call,                 \* each task's Close call: err, send, ret
    pkt,                  \* the loop's local state inside handlePacket
    loopErr,              \* the loop's local err of the iteration
    eng,                  \* the sub-engines: packer, ack and loss state
    out,                  \* what the session did to the outside world: the
                          \* close callbacks (each with the Close call that
                          \* made it), the stream callbacks, the packets
                          \* written, the packets reported to loss recovery
                          \* and congestion control, and what became of the
                          \* streams handleStreamFrame created
    clock,                \* the idle timer and the time since the last packet
    budget                \* what the environment may still do

vars == <<closed, closeChan, sendingScheduled, receivedPackets, streams,
          lastRcvdPacketNumber, remoteAddr, pc, call, pkt, loopErr, eng,
          out, clock, budget>>


(***************************************************************************)
(* Data.                                                                   *)
(***************************************************************************)
Tasks == {"loop", "hs"}

\* errors that are *protocol.QuicError values; every other error is a
\* plain Go error
QuicErrors == {"NETWORK_IDLE_TIMEOUT", "DECRYPTION_FAILURE",
               "PEER_GOING_AWAY", "HANDSHAKE_FAILED", "INVALID_PACKET"}

\* one entry of Session.streams.  st is "absent" (no key), "tomb" (key
\* present, value nil) or "live"; the other fields are the stream's own.
AbsentStream == [st |-> "absent", frames |-> 0, fin |-> FALSE,
                 errs |-> {}, window |-> 0]
Tombstone == [AbsentStream EXCEPT !.st = "tomb"]
FreshStream == [AbsentStream EXCEPT !.st = "live"]

\* a frame as the unpacker returns it.  res is what the engine behind the
\* frame's handler answers for it (AddStreamFrame, ReceivedAck,
\* ReceivedStopWaiting); id is the stream id of a stream-level frame.
Frame(t, id, res) == [type |-> t, id |-> id, res |-> res]

\* an envelope of the ingress queue.  dec is what Unpack answers for it.
Packet(pn, addr, dec, fs) == [pn |-> pn, addr |-> addr, dec |-> dec, frames |-> fs]

NoPacket == [p |-> Packet(0, "none", "ok", <<>>), fi |-> 0, exists |-> FALSE]
NoCall == [err |-> NoErr, send |-> FALSE, ret |-> "none"]

\* a packet written to the connection
Written(kind, code, pn) == [kind |-> kind, code |-> code, pn |-> pn]

Max(a, b) == IF a >= b THEN a ELSE b

(***************************************************************************)
(* NewSession: the state after construction.  Stream 1, the crypto stream, *)
(* is created; the handshake goroutine is running; Run is about to start.  *)
(***************************************************************************)
InitWith(b) ==
    /\ closed = FALSE
    /\ closeChan = 0
    /\ sendingScheduled = 0
    /\ receivedPackets = <<>>
    /\ streams = [id \in StreamIDs |-> IF id = 1 THEN FreshStream ELSE AbsentStream]
    /\ lastRcvdPacketNumber = 0
    /\ remoteAddr = "none"
    /\ pc = [loop |-> "prelude", hs |-> "running", app |-> "idle"]
    /\ call = [t \in Tasks |-> NoCall]
    /\ pkt = NoPacket
    /\ loopErr = NoErr
    /\ eng = [packer |-> 0, ack |-> FALSE, registered |-> {}, inFlight |-> 0,
              rtx |-> 0, nextPN |-> 1, lastAccepted |-> 0, sending |-> 0]
    /\ out = [closeCallback |-> <<>>, streamCallback |-> <<>>, written |-> <<>>,
              sentPacket |-> {}, onPacketSent |-> {},
              peerStreams |-> [id \in StreamIDs |-> "none"]]
    /\ clock = [idle |-> 0, quiet |-> 0]
    /\ budget = b

\* what the environment may do in one run: HandlePacket calls, application
\* QueueStreamFrame calls, application NewStream calls, engine faults
Budget(packets, frames, newStreams, faults) ==
    [packets |-> packets, app |-> frames, newStream |-> newStreams,
     faults |-> faults]

Goto(t, where) == pc' = [pc EXCEPT ![t] = where]

\* task t calls s.Close(e, send) and continues at ret when it returns
CallClose(t, e, send, ret) ==
    /\ pc' = [pc EXCEPT ![t] = "c_check"]
    /\ call' = [call EXCEPT ![t] = [err |-> e, send |-> send, ret |-> ret]]

(***************************************************************************)
(* Close, step by step, run by task t.                                     *)
(***************************************************************************)
\* if s.closed { return nil }
CloseCheck(t) ==
    /\ pc[t] = "c_check"
    /\ Goto(t, IF closed THEN call[t].ret ELSE "c_set")
    /\ UNCHANGED <<closed, closeChan, sendingScheduled, receivedPackets, streams,
                   lastRcvdPacketNumber, remoteAddr, call, pkt, loopErr, eng,
                   out, clock, budget>>

\* s.closed = true
CloseSet(t) ==
    /\ pc[t] = "c_set"
    /\ closed' = TRUE
    /\ Goto(t, "c_send")
    /\ UNCHANGED <<closeChan, sendingScheduled, receivedPackets, streams,
                   lastRcvdPacketNumber, remoteAddr, call, pkt, loopErr, eng,
                   out, clock, budget>>

\* s.closeChan <- struct{}{}: blocks while the one-slot buffer is full
CloseSignal(t) ==
    /\ pc[t] = "c_send"
    /\ closeChan < 1
    /\ closeChan' = closeChan + 1
    /\ Goto(t, "c_callback")
    /\ UNCHANGED <<closed, sendingScheduled, receivedPackets, streams,
                   lastRcvdPacketNumber, remoteAddr, call, pkt, loopErr, eng,
                   out, clock, budget>>

\* s.closeCallback(s.connectionID); if !sendConnectionClose { return nil }
CloseCallback(t) ==
    /\ pc[t] = "c_callback"
    /\ out' = [out EXCEPT !.closeCallback =
                 Append(@, [task |-> t, err |-> call[t].err, send |-> call[t].send])]
    /\ Goto(t, IF call[t].send THEN "c_streams" ELSE call[t].ret)
    /\ UNCHANGED <<closed, closeChan, sendingScheduled, receivedPackets, streams,
                   lastRcvdPacketNumber, remoteAddr, call, pkt, loopErr, eng,
                   clock, budget>>

\* the error Close works with: a nil error becomes PEER_GOING_AWAY
CloseError(e) == IF e = NoErr THEN "PEER_GOING_AWAY" ELSE e

\* the error code of the CONNECTION_CLOSE: the QuicError's, else 1
ErrorCode(e) == IF e \in QuicErrors THEN e ELSE "ErrorCode(1)"

\* closeStreamsWithError: RegisterError on every stream that is not nil
closeStreamsWithError(e) ==
    streams' = [id \in StreamIDs |->
                  IF streams[id].st = "live"
                  THEN [streams[id] EXCEPT !.errs = @ \cup {e}]
                  ELSE streams[id]]

CloseStreams(t) ==
    /\ pc[t] = "c_streams"
    /\ closeStreamsWithError(CloseError(call[t].err))
    /\ Goto(t, "c_write")
    /\ UNCHANGED <<closed, closeChan, sendingScheduled, receivedPackets,
                   lastRcvdPacketNumber, remoteAddr, call, pkt, loopErr, eng,
                   out, clock, budget>>

\* sendPublicReset(rejectedPacketNumber): the packet handed to conn.write
sendPublicReset(rejectedPacketNumber) ==
    Written("PUBLIC_RESET", NoErr, rejectedPacketNumber)

\* the close packet: a public reset for DECRYPTION_FAILURE, else a packet
\* with one CONNECTION_CLOSE frame
ClosePacket(e) ==
    IF ErrorCode(e) = "DECRYPTION_FAILURE"
    THEN sendPublicReset(lastRcvdPacketNumber)
    ELSE Written("CONNECTION_CLOSE", ErrorCode(e), 0)

CloseWrite(t) ==
    /\ pc[t] = "c_write"
    /\ out' = [out EXCEPT !.written = Append(@, ClosePacket(CloseError(call[t].err)))]
    /\ Goto(t, call[t].ret)
    /\ UNCHANGED <<closed, closeChan, sendingScheduled, receivedPackets, streams,
                   lastRcvdPacketNumber, remoteAddr, call, pkt, loopErr, eng,
                   clock, budget>>

(***************************************************************************)
(* The handshake goroutine of NewSession: HandleCryptoStream returns nil,  *)
(* or an error with which the goroutine calls Close(err, true).            *)
(***************************************************************************)
HandshakeErrors == {"HANDSHAKE_FAILED", "DECRYPTION_FAILURE"}

HandshakeDone ==
    /\ pc.hs = "running"
    /\ Goto("hs", "done")
    /\ UNCHANGED <<closed, closeChan, sendingScheduled, receivedPackets, streams,
                   lastRcvdPacketNumber, remoteAddr, call, pkt, loopErr, eng,
                   out, clock, budget>>

HandshakeFails ==
    /\ pc.hs = "running"
    /\ \E e \in HandshakeErrors : CallClose("hs", e, TRUE, "done")
    /\ UNCHANGED <<closed, closeChan, sendingScheduled, receivedPackets, streams,
                   lastRcvdPacketNumber, remoteAddr, pkt, loopErr, eng,
                   out, clock, budget>>


(***************************************************************************)
(* The demultiplexer and the application.                                  *)
(***************************************************************************)
\* HandlePacket: s.receivedPackets <- receivedPacket{...}, a send on a
\* buffered channel, which blocks while the buffer is full
HandlePacket(p) ==
    /\ budget.packets > 0
    /\ Len(receivedPackets) < MaxQueue
    /\ receivedPackets' = Append(receivedPackets, p)
    /\ budget' = [budget EXCEPT !.packets = @ - 1]
    /\ clock' = [clock EXCEPT !.quiet = 0]
    /\ UNCHANGED <<closed, closeChan, sendingScheduled, streams,
                   lastRcvdPacketNumber, remoteAddr, pc, call, pkt, loopErr,
                   eng, out>>

\* NewStream(id), all of it under streamsMutex: fails when the entry is a
\* live stream, else stores a new stream.  The result is <<ok, table>>.
NewStream(id) ==
    IF streams[id].st = "live"
    THEN <<FALSE, streams>>
    ELSE <<TRUE, [streams EXCEPT ![id] = FreshStream]>>

\* the application calls NewStream(id)
AppNewStream(id) ==
    /\ pc.app = "idle"
    /\ budget.newStream > 0
    /\ budget' = [budget EXCEPT !.newStream = @ - 1]
    /\ streams' = NewStream(id)[2]
    /\ UNCHANGED <<closed, closeChan, sendingScheduled, receivedPackets,
                   lastRcvdPacketNumber, remoteAddr, pc, call, pkt, loopErr,
                   eng, out, clock>>

\* the application reads a stream to its end: finishedReading() turns true
AppReadStream(id) ==
    /\ streams[id].st = "live"
    /\ streams[id].frames > 0
    /\ ~streams[id].fin
    /\ streams' = [streams EXCEPT ![id].fin = TRUE]
    /\ UNCHANGED <<closed, closeChan, sendingScheduled, receivedPackets,
                   lastRcvdPacketNumber, remoteAddr, pc, call, pkt, loopErr,
                   eng, out, clock, budget>>

\* scheduleSending: a send that does nothing when the buffer is full
scheduleSendingEveryCall == sendingScheduled + 1

scheduleSending == IF sendingScheduled < 1 THEN 1 ELSE sendingScheduled

\* QueueStreamFrame, first statement: s.packer.AddStreamFrame(*frame)
QueueStreamFrameAdd ==
    /\ pc.app = "idle"
    /\ budget.app > 0
    /\ budget' = [budget EXCEPT !.app = @ - 1]
    /\ eng' = [eng EXCEPT !.packer = @ + 1]
    /\ Goto("app", "q_schedule")
    /\ UNCHANGED <<closed, closeChan, sendingScheduled, receivedPackets, streams,
                   lastRcvdPacketNumber, remoteAddr, call, pkt, loopErr, out,
                   clock>>

\* QueueStreamFrame, second statement: s.scheduleSending()
QueueStreamFrameSchedule ==
    /\ pc.app = "q_schedule"
    /\ sendingScheduled' = scheduleSending
    /\ Goto("app", "idle")
    /\ UNCHANGED <<closed, closeChan, receivedPackets, streams,
                   lastRcvdPacketNumber, remoteAddr, call, pkt, loopErr, eng,
                   out, clock, budget>>

(***************************************************************************)
(* Run: the event loop.                                                    *)
(***************************************************************************)
\* the first select: return on a close signal, else go on to the wait.
\* The wait's time.After is armed when the wait begins.
RunPrelude ==
    /\ pc.loop = "prelude"
    /\ IF closeChan > 0
       THEN /\ closeChan' = closeChan - 1
            /\ Goto("loop", "returned")
            /\ UNCHANGED clock
       ELSE /\ Goto("loop", "select")
            /\ clock' = [clock EXCEPT !.idle = 0]
            /\ UNCHANGED closeChan
    /\ loopErr' = NoErr
    /\ UNCHANGED <<closed, sendingScheduled, receivedPackets, streams,
                   lastRcvdPacketNumber, remoteAddr, call, pkt, eng, out,
                   budget>>

\* case <-s.closeChan: return
SelectClose ==
    /\ pc.loop = "select"
    /\ closeChan > 0
    /\ closeChan' = closeChan - 1
    /\ Goto("loop", "returned")
    /\ UNCHANGED <<closed, sendingScheduled, receivedPackets, streams,
                   lastRcvdPacketNumber, remoteAddr, call, pkt, loopErr, eng,
                   out, clock, budget>>

\* case p := <-s.receivedPackets
SelectPacket ==
    /\ pc.loop = "select"
    /\ receivedPackets # <<>>
    /\ pkt' = [p |-> Head(receivedPackets), fi |-> 0, exists |-> FALSE]
    /\ receivedPackets' = Tail(receivedPackets)
    /\ Goto("loop", "handlePacket")
    /\ UNCHANGED <<closed, closeChan, sendingScheduled, streams,
                   lastRcvdPacketNumber, remoteAddr, call, loopErr, eng, out,
                   clock, budget>>

\* case <-s.sendingScheduled
SelectSending ==
    /\ pc.loop = "select"
    /\ sendingScheduled > 0
    /\ sendingScheduled' = sendingScheduled - 1
    /\ Goto("loop", "sendPacket")
    /\ UNCHANGED <<closed, closeChan, receivedPackets, streams,
                   lastRcvdPacketNumber, remoteAddr, call, pkt, loopErr, eng,
                   out, clock, budget>>

\* case <-time.After(idle lifetime): s.Close(NETWORK_IDLE_TIMEOUT, true)
\* the channel of time.After(lifetime) is ready
TimerExpiredAtOnce == TRUE

TimerExpired == clock.idle >= IdleLifetime

SelectTimeout ==
    /\ pc.loop = "select"
    /\ TimerExpired
    /\ CallClose("loop", "NETWORK_IDLE_TIMEOUT", TRUE, "errcheck")
    /\ UNCHANGED <<closed, closeChan, sendingScheduled, receivedPackets, streams,
                   lastRcvdPacketNumber, remoteAddr, pkt, loopErr, eng, out,
                   clock, budget>>

\* time passes while the loop waits with no channel ready and the timer
\* not yet expired
Tick ==
    /\ pc.loop = "select"
    /\ closeChan = 0
    /\ receivedPackets = <<>>
    /\ sendingScheduled = 0
    /\ clock.idle < IdleLifetime
    /\ clock' = [idle |-> clock.idle + 1,
                 quiet |-> IF clock.quiet > IdleLifetime THEN clock.quiet
                           ELSE clock.quiet + 1]
    /\ UNCHANGED <<closed, closeChan, sendingScheduled, receivedPackets, streams,
                   lastRcvdPacketNumber, remoteAddr, pc, call, pkt, loopErr,
                   eng, out, budget>>


(***************************************************************************)
(* handlePacket.                                                           *)
(***************************************************************************)
\* the wire carries the low byte of the packet number (PacketNumberLen1)
EpochDelta == 256

Delta(a, b) == IF a < b THEN b - a ELSE a - b
ClosestTo(target, a, b) == IF Delta(target, a) < Delta(target, b) THEN a ELSE b

\* protocol.InferPacketNumber: the number with the wire's low bits that is
\* closest to last + 1, among the last number's epoch and its neighbours.
\* In the first epoch the previous epoch's candidate wraps around to the
\* top of the 64-bit range and is never the closest.
InferPacketNumber(last, wire) ==
    LET epoch == last - (last % EpochDelta)
        next == epoch + EpochDelta + wire
        far == IF epoch >= EpochDelta
               THEN ClosestTo(last + 1, epoch - EpochDelta + wire, next)
               ELSE next
    IN  ClosestTo(last + 1, epoch + wire, far)

\* handlePacket returns e to Run, which then calls scheduleSending
ReturnFromHandlePacket(e) ==
    /\ loopErr' = e
    /\ pkt' = NoPacket
    /\ Goto("loop", "schedule")

\* handlePacket up to the frame loop: the packet number, the remote
\* address, Unpack, and ReceivedPacket
HandlePacketUnpack ==
    /\ pc.loop = "handlePacket"
    /\ LET number == InferPacketNumber(lastRcvdPacketNumber, pkt.p.pn) IN
        /\ lastRcvdPacketNumber' = number
        /\ remoteAddr' = pkt.p.addr
        /\ IF pkt.p.dec = "DECRYPTION_FAILURE"
           THEN ReturnFromHandlePacket(NoErr) /\ UNCHANGED eng
           ELSE IF pkt.p.dec # "ok"
           THEN ReturnFromHandlePacket(pkt.p.dec) /\ UNCHANGED eng
           ELSE /\ eng' = [eng EXCEPT !.registered = @ \cup {number},
                                      !.ack = TRUE,
                                      !.lastAccepted = number]
                /\ pkt' = [pkt EXCEPT !.fi = 1]
                /\ Goto("loop", "frames")
                /\ UNCHANGED loopErr
    /\ UNCHANGED <<closed, closeChan, sendingScheduled, receivedPackets, streams,
                   call, out, clock, budget>>

CurrentFrame == pkt.p.frames[pkt.fi]

\* the frame's handler returned e: handlePacket returns a non-nil e, and
\* goes on to the next frame otherwise
FrameHandled(e) ==
    IF e # NoErr
    THEN ReturnFromHandlePacket(e)
    ELSE /\ pkt' = [pkt EXCEPT !.fi = @ + 1]
         /\ Goto("loop", "frames")
         /\ UNCHANGED loopErr

\* the frame loop is over: return nil
FramesDone ==
    /\ pc.loop = "frames"
    /\ pkt.fi > Len(pkt.p.frames)
    /\ ReturnFromHandlePacket(NoErr)
    /\ UNCHANGED <<closed, closeChan, sendingScheduled, receivedPackets, streams,
                   lastRcvdPacketNumber, remoteAddr, call, eng, out,
                   clock, budget>>

\* handleStreamFrame, the lookup under the read lock and isValidStreamID
isValidStreamID(id) == id % 2 = 1

StreamFrameLookup ==
    /\ pc.loop = "frames"
    /\ pkt.fi <= Len(pkt.p.frames)
    /\ CurrentFrame.type = "STREAM"
    /\ LET entry == streams[CurrentFrame.id]
           streamExists == entry.st # "absent"
       IN  IF ~streamExists
           THEN IF ~isValidStreamID(CurrentFrame.id)
                THEN ReturnFromHandlePacket("InvalidStreamID")
                ELSE /\ Goto("loop", "hsf_new")
                     /\ pkt' = [pkt EXCEPT !.exists = FALSE]
                     /\ UNCHANGED loopErr
           ELSE IF entry.st = "tomb"
                THEN ReturnFromHandlePacket("ReopeningStreamsNotAllowed")
                ELSE /\ Goto("loop", "hsf_add")
                     /\ pkt' = [pkt EXCEPT !.exists = TRUE]
                     /\ UNCHANGED loopErr
    /\ UNCHANGED <<closed, closeChan, sendingScheduled, receivedPackets, streams,
                   lastRcvdPacketNumber, remoteAddr, call, eng, out, clock,
                   budget>>

\* handleStreamFrame: ss, _ := s.NewStream(id); str = ss.(*stream).  A
\* failed NewStream returns a nil interface and the type assertion panics.
StreamFrameNewStream ==
    /\ pc.loop = "hsf_new"
    /\ streams' = NewStream(CurrentFrame.id)[2]
    /\ IF NewStream(CurrentFrame.id)[1]
       THEN /\ Goto("loop", "hsf_add")
            /\ out' = [out EXCEPT !.peerStreams[CurrentFrame.id] = "created"]
       ELSE /\ Goto("loop", "panicked")
            /\ UNCHANGED out
    /\ UNCHANGED <<closed, closeChan, sendingScheduled, receivedPackets,
                   lastRcvdPacketNumber, remoteAddr, call, pkt, loopErr, eng,
                   clock, budget>>

\* if !streamExists, with streamExists as the lookup found it
CallbackAlways == TRUE

CallbackDue == ~pkt.exists

\* handleStreamFrame: err := str.AddStreamFrame(frame)
StreamFrameAdd ==
    /\ pc.loop = "hsf_add"
    /\ IF CurrentFrame.res # "ok"
       THEN /\ ReturnFromHandlePacket(CurrentFrame.res)
            /\ UNCHANGED streams
       ELSE /\ streams' = [streams EXCEPT ![CurrentFrame.id].frames = @ + 1]
            /\ IF CallbackDue
               THEN Goto("loop", "hsf_callback") /\ UNCHANGED <<pkt, loopErr>>
               ELSE FrameHandled(NoErr)
    /\ out' = IF pkt.exists THEN out
              ELSE [out EXCEPT !.peerStreams[CurrentFrame.id] =
                      IF CurrentFrame.res = "ok" THEN "appended" ELSE "rejected"]
    /\ UNCHANGED <<closed, closeChan, sendingScheduled, receivedPackets,
                   lastRcvdPacketNumber, remoteAddr, call, eng, clock,
                   budget>>

\* handleStreamFrame: if !streamExists { s.streamCallback(s, str) }
StreamFrameCallback ==
    /\ pc.loop = "hsf_callback"
    /\ out' = [out EXCEPT !.streamCallback =
                 Append(@, [id |-> CurrentFrame.id,
                            frames |-> streams[CurrentFrame.id].frames])]
    /\ FrameHandled(NoErr)
    /\ UNCHANGED <<closed, closeChan, sendingScheduled, receivedPackets, streams,
                   lastRcvdPacketNumber, remoteAddr, call, eng, clock, budget>>

\* case *frames.ConnectionCloseFrame: s.Close(nil, false)
ConnectionCloseFrame ==
    /\ pc.loop = "frames"
    /\ pkt.fi <= Len(pkt.p.frames)
    /\ CurrentFrame.type = "CONNECTION_CLOSE"
    /\ CallClose("loop", NoErr, FALSE, "frames")
    /\ pkt' = [pkt EXCEPT !.fi = @ + 1]
    /\ UNCHANGED <<closed, closeChan, sendingScheduled, receivedPackets, streams,
                   lastRcvdPacketNumber, remoteAddr, loopErr, eng, out, clock,
                   budget>>

\* handleAckFrame: ReceivedAck's error, else the congestion event
handleAckFrame(f) ==
    IF f.res \notin {"ok", "lost"}
    THEN <<f.res, eng>>
    ELSE <<NoErr, [eng EXCEPT !.inFlight = 0,
                              !.rtx = IF f.res = "lost" THEN @ + 1 ELSE @]>>

\* handleRstStreamFrame
handleRstStreamFrame(f) ==
    IF f.id \notin StreamIDs \/ streams[f.id].st # "live"
    THEN <<"RstStreamOnInvalidStream", streams>>
    ELSE <<NoErr, [streams EXCEPT ![f.id].errs = @ \cup {"RST_STREAM"}]>>

\* handleWindowUpdateFrame.  A tombstone passes the ok test: the call of
\* UpdateFlowControlWindow on the nil stream panics.
handleWindowUpdateFrame(f) ==
    IF f.id = 0 THEN <<NoErr, streams>>
    ELSE IF streams[f.id].st = "absent"
    THEN <<"WindowUpdateOnInvalidStream", streams>>
    ELSE IF streams[f.id].st = "tomb"
    THEN <<"panic", streams>>
    ELSE <<NoErr, [streams EXCEPT ![f.id].window = Max(@, 1)]>>

\* the frames whose handlers run within the loop's own state or under the
\* stream lock in one piece
OtherFrame ==
    /\ pc.loop = "frames"
    /\ pkt.fi <= Len(pkt.p.frames)
    /\ CurrentFrame.type \notin {"STREAM", "CONNECTION_CLOSE"}
    /\ LET f == CurrentFrame
           r == CASE f.type = "ACK" -> <<handleAckFrame(f)[1], streams, handleAckFrame(f)[2]>>
                  [] f.type = "STOP_WAITING" ->
                        <<IF f.res = "ok" THEN NoErr ELSE f.res, streams, eng>>
                  [] f.type = "RST_STREAM" ->
                        <<handleRstStreamFrame(f)[1], handleRstStreamFrame(f)[2], eng>>
                  [] f.type = "WINDOW_UPDATE" ->
                        <<handleWindowUpdateFrame(f)[1], handleWindowUpdateFrame(f)[2], eng>>
                  [] OTHER -> <<NoErr, streams, eng>>
       IN  /\ streams' = r[2]
           /\ eng' = r[3]
           /\ IF r[1] = "panic"
              THEN Goto("loop", "panicked") /\ UNCHANGED <<pkt, loopErr>>
              ELSE FrameHandled(r[1])
    /\ UNCHANGED <<closed, closeChan, sendingScheduled, receivedPackets,
                   lastRcvdPacketNumber, remoteAddr, call, out, clock, budget>>

\* Run, after handlePacket: s.scheduleSending()
RunSchedule ==
    /\ pc.loop = "schedule"
    /\ sendingScheduled' = scheduleSending
    /\ Goto("loop", "errcheck")
    /\ UNCHANGED <<closed, closeChan, receivedPackets, streams,
                   lastRcvdPacketNumber, remoteAddr, call, pkt, loopErr, eng,
                   out, clock, budget>>


(***************************************************************************)
(* sendPacket.                                                             *)
(***************************************************************************)
congestionAllowsSending == eng.inFlight <= CongestionWindow

\* sendPacket returns e to Run
ReturnFromSendPacket(e) ==
    /\ loopErr' = e
    /\ Goto("loop", "errcheck")

\* what the engines may answer while a packet is built
SendAnswers == {"ok", "DequeueAckFrameError", "PackPacketError", "SentPacketError"}

\* err = s.sentPacketHandler.SentPacket(...); if err != nil { return err }
SentPacketErrorDropped(answer) == FALSE

SentPacketFailed(answer) == answer = "SentPacketError"

\* sendPacket up to SentPacket and OnPacketSent: the congestion check, one
\* retransmission, the ack frame, PackPacket (nil when there is neither a
\* control frame nor stream data; it takes n of the queued stream frames),
\* then the loss-recovery and congestion accounting of the packet
SendPacketBuild ==
    /\ pc.loop = "sendPacket"
    /\ IF ~congestionAllowsSending
       THEN ReturnFromSendPacket(NoErr) /\ UNCHANGED <<eng, out>>
       ELSE \E answer \in (IF budget.faults THEN SendAnswers ELSE {"ok"}) :
            LET retransmit == eng.rtx > 0
                queued == eng.packer + (IF retransmit THEN 1 ELSE 0)
                afterRtx == [eng EXCEPT !.rtx = IF retransmit THEN @ - 1 ELSE @,
                                        !.packer = queued]
                afterAck == [afterRtx EXCEPT !.ack = FALSE]
                nothing == ~eng.ack /\ queued = 0
            IN  IF answer = "DequeueAckFrameError"
                THEN /\ eng' = afterRtx
                     /\ ReturnFromSendPacket(answer)
                     /\ UNCHANGED out
                ELSE IF nothing
                THEN /\ answer = "ok"
                     /\ eng' = afterAck
                     /\ ReturnFromSendPacket(NoErr)
                     /\ UNCHANGED out
                ELSE IF answer = "PackPacketError"
                THEN /\ eng' = afterAck
                     /\ ReturnFromSendPacket(answer)
                     /\ UNCHANGED out
                ELSE \E n \in (IF queued = 0 THEN {0} ELSE 1..queued) :
                     LET number == eng.nextPN
                         packed == [afterAck EXCEPT !.packer = @ - n,
                                                    !.nextPN = @ + 1]
                     IN  IF SentPacketFailed(answer)
                         THEN /\ eng' = packed
                              /\ ReturnFromSendPacket(answer)
                              /\ UNCHANGED out
                         ELSE /\ eng' = [packed EXCEPT !.inFlight = @ + 1,
                                                       !.sending = number]
                              /\ out' = [out EXCEPT
                                           !.sentPacket = @ \cup
                                               (IF answer = "SentPacketError"
                                                THEN {} ELSE {number}),
                                           !.onPacketSent = @ \cup {number}]
                              /\ Goto("loop", "sp_write")
                              /\ UNCHANGED loopErr
    /\ UNCHANGED <<closed, closeChan, sendingScheduled, receivedPackets, streams,
                   lastRcvdPacketNumber, remoteAddr, call, pkt, clock, budget>>

\* sendPacket: err = s.conn.write(packet.raw)
SendPacketWrite ==
    /\ pc.loop = "sp_write"
    /\ out' = [out EXCEPT !.written = Append(@, Written("DATA", NoErr, eng.sending))]
    /\ eng' = [eng EXCEPT !.sending = 0]
    /\ \E answer \in (IF budget.faults THEN {"ok", "WriteError"} ELSE {"ok"}) :
         IF answer = "ok"
         THEN Goto("loop", "sp_reschedule") /\ UNCHANGED loopErr
         ELSE ReturnFromSendPacket(answer)
    /\ UNCHANGED <<closed, closeChan, sendingScheduled, receivedPackets, streams,
                   lastRcvdPacketNumber, remoteAddr, call, pkt, clock, budget>>

\* sendPacket: if !s.packer.Empty() { s.scheduleSending() }; return nil
SendPacketReschedule ==
    /\ pc.loop = "sp_reschedule"
    /\ sendingScheduled' = IF eng.packer > 0 THEN scheduleSending ELSE sendingScheduled
    /\ ReturnFromSendPacket(NoErr)
    /\ UNCHANGED <<closed, closeChan, receivedPackets, streams,
                   lastRcvdPacketNumber, remoteAddr, call, pkt, eng, out,
                   clock, budget>>

(***************************************************************************)
(* Run, after the select.                                                  *)
(***************************************************************************)
\* the errors the switch of Run does not close the session for
IgnoredErrorsAndMapAccess ==
    {"DuplicateOrOutOfOrderAck", "MapAccess", "RstStreamOnInvalidStream"}

IgnoredErrorsAndReopening ==
    {"DuplicateOrOutOfOrderAck", "RstStreamOnInvalidStream",
     "ReopeningStreamsNotAllowed"}

IgnoredErrors == {"DuplicateOrOutOfOrderAck", "RstStreamOnInvalidStream"}

\* if err != nil { switch err { ... } }
RunError ==
    /\ pc.loop = "errcheck"
    /\ IF loopErr = NoErr \/ loopErr \in IgnoredErrors
       THEN Goto("loop", "gc") /\ UNCHANGED call
       ELSE CallClose("loop", loopErr, TRUE, "gc")
    /\ UNCHANGED <<closed, closeChan, sendingScheduled, receivedPackets, streams,
                   lastRcvdPacketNumber, remoteAddr, pkt, loopErr, eng, out,
                   clock, budget>>

\* garbageCollectStreams: every stream that finished reading becomes nil
garbageCollectStreams ==
    [id \in StreamIDs |->
       IF streams[id].st = "live" /\ streams[id].fin THEN Tombstone ELSE streams[id]]

RunGarbageCollect ==
    /\ pc.loop = "gc"
    /\ streams' = garbageCollectStreams
    /\ Goto("loop", "prelude")
    /\ UNCHANGED <<closed, closeChan, sendingScheduled, receivedPackets,
                   lastRcvdPacketNumber, remoteAddr, call, pkt, loopErr, eng,
                   out, clock, budget>>

(***************************************************************************)
(* The specifications.                                                     *)
(***************************************************************************)
Handshake == HandshakeDone \/ HandshakeFails

CloseStep == \E t \in Tasks :
    CloseCheck(t) \/ CloseSet(t) \/ CloseSignal(t) \/ CloseCallback(t)
        \/ CloseStreams(t) \/ CloseWrite(t)

\* Run without the frame handlers and the idle timer
LoopCore ==
    \/ RunPrelude \/ SelectClose \/ SelectPacket \/ SelectSending
    \/ HandlePacketUnpack \/ FramesDone \/ RunSchedule
    \/ SendPacketBuild \/ SendPacketWrite \/ SendPacketReschedule
    \/ RunError \/ RunGarbageCollect

StreamFrames ==
    StreamFrameLookup \/ StreamFrameNewStream \/ StreamFrameAdd \/ StreamFrameCallback

Timer == SelectTimeout \/ Tick

Range(q) == {q[i] : i \in 1..Len(q)}

(***************************************************************************)
(* SpecClose: the close machine.  The handshake may fail at any moment,    *)
(* the idle timer runs, and the peer sends pings, a CONNECTION_CLOSE       *)
(* followed by a ping, and packets that cannot be decrypted.               *)
(***************************************************************************)
PingPacket == Packet(1, "a", "ok", <<Frame("PING", 0, "ok")>>)
PeerClosePacket ==
    Packet(1, "a", "ok", <<Frame("CONNECTION_CLOSE", 0, "ok"), Frame("PING", 0, "ok")>>)
UndecryptablePacket == Packet(2, "b", "DECRYPTION_FAILURE", <<>>)
ClosePackets == {PingPacket, PeerClosePacket, UndecryptablePacket}

NextClose ==
    \/ LoopCore \/ ConnectionCloseFrame \/ OtherFrame \/ Timer
    \/ CloseStep \/ Handshake
    \/ \E p \in ClosePackets : HandlePacket(p)

SpecClose == InitWith(Budget(MaxPackets, 0, 0, FALSE)) /\ [][NextClose]_vars

(***************************************************************************)
(* C1.  The side effects of Close happen at most once, however many Close  *)
(* calls are made and whichever tasks make them: the close signal is       *)
(* raised once and the close callback is invoked once.  (A task at         *)
(* c_callback has raised the signal and is about to invoke the callback.)  *)
(* The handshake goroutine and the event loop both test s.closed before    *)
(* either sets it, and both go on.                                         *)
(***************************************************************************)
C1_CloseSideEffectsOnce ==
    Len(out.closeCallback) + Cardinality({t \in Tasks : pc[t] = "c_callback"}) <= 1

(***************************************************************************)
(* C3.  HandlePacket never waits: whenever the demultiplexer calls it the  *)
(* ingress channel has room for the envelope.  The send of HandlePacket    *)
(* blocks on a full channel, for good once Run has returned.               *)
(***************************************************************************)
C3_HandlePacketNeverBlocks == Len(receivedPackets) < MaxQueue

(***************************************************************************)
(* C5.  Once s.closed is set the loop dispatches no frame to a handler     *)
(* and sendPacket builds no packet; stated here for the sessions that the  *)
(* loop itself closed (the handshake goroutine has not called Close).      *)
(* handlePacket goes on with the frames that follow a CONNECTION_CLOSE.    *)
(***************************************************************************)
DispatchStep ==
    /\ pc.loop = "frames"
    /\ pkt.fi <= Len(pkt.p.frames)
    /\ <<pc.loop, pkt>>' # <<pc.loop, pkt>>

BuildStep == pc.loop = "sendPacket" /\ eng.nextPN' # eng.nextPN

C5_NoWorkOnceClosed ==
    [][(closed /\ call.hs = NoCall) => ~DispatchStep /\ ~BuildStep]_vars

(***************************************************************************)
(* C6.  A session closed by the peer's CONNECTION_CLOSE frame (the loop's  *)
(* Close(nil, false) went past the closed test) writes no                  *)
(* CONNECTION_CLOSE packet.  The handshake goroutine may have gone past    *)
(* the closed test too (C1) and writes one.                                *)
(***************************************************************************)
ClosedByPeer == \E c \in Range(out.closeCallback) : c.task = "loop" /\ ~c.send

C6_PeerCloseWritesNoConnectionClose ==
    ClosedByPeer => \A w \in Range(out.written) : w.kind # "CONNECTION_CLOSE"

(***************************************************************************)
(* C9.  A close with DECRYPTION_FAILURE writes a public reset and no       *)
(* CONNECTION_CLOSE, and the reset's rejected packet number is the number  *)
(* of the last accepted (decrypted) packet.  handlePacket stores the       *)
(* number of a packet before Unpack rejects it, so the reset carries the   *)
(* number of the discarded packet.                                         *)
(***************************************************************************)
\* the packet that this step writes to the connection, as a set
WrittenNow ==
    IF Len(out.written') > Len(out.written)
    THEN {out.written'[Len(out.written')]} ELSE {}

\* a Close with error e is at its write
ClosingWith(e) == \E t \in Tasks : pc[t] = "c_write" /\ CloseError(call[t].err) = e

C9_PublicResetRejectsLastAccepted ==
    [][\A w \in WrittenNow :
          /\ (ClosingWith("DECRYPTION_FAILURE") /\ w.kind # "DATA")
                => w.kind = "PUBLIC_RESET"
          /\ (w.kind = "PUBLIC_RESET" /\ eng.lastAccepted > 0 /\ pc.loop = "select")
                => w.pn = eng.lastAccepted]_vars

(***************************************************************************)
(* C10.  The last received packet number never decreases.  handlePacket    *)
(* stores the number of every packet, also of one that arrives after a     *)
(* packet with a larger number.                                            *)
(***************************************************************************)
C10_LastRcvdMonotone ==
    [][lastRcvdPacketNumber' >= lastRcvdPacketNumber]_vars


(***************************************************************************)
(* SpecStreams: the stream table.  The peer sends STREAM frames for        *)
(* stream 3, some of which AddStreamFrame rejects; the application         *)
(* creates streams and reads them to the end; the handshake may fail.      *)
(***************************************************************************)
StreamPacket == Packet(1, "a", "ok", <<Frame("STREAM", 3, "ok")>>)
RejectedStreamPacket == Packet(2, "a", "ok", <<Frame("STREAM", 3, "StreamFrameRejected")>>)
StreamPackets == {StreamPacket, RejectedStreamPacket}

NextStreams ==
    \/ LoopCore \/ StreamFrames \/ CloseStep \/ Handshake
    \/ \E p \in StreamPackets : HandlePacket(p)
    \/ \E id \in StreamIDs : AppNewStream(id)
    \/ \E id \in StreamIDs : AppReadStream(id)

SpecStreams == InitWith(Budget(MaxPackets, 0, MaxNewStreams, FALSE)) /\ [][NextStreams]_vars

(***************************************************************************)
(* C2.  A tombstoned stream id stays tombstoned.  NewStream refuses only   *)
(* a live entry (s.streams[id] != nil), so the application's NewStream     *)
(* puts a new stream under a tombstoned id.                                *)
(***************************************************************************)
C2_TombstonesStay ==
    [][\A id \in StreamIDs : streams[id].st = "tomb" => streams'[id].st = "tomb"]_vars

(***************************************************************************)
(* C7.  The stream callback and the streams handleStreamFrame creates.     *)
(***************************************************************************)
\* the stream callbacks made for stream id
CallbacksFor(id) ==
    {i \in 1..Len(out.streamCallback) : out.streamCallback[i].id = id}

\* handleStreamFrame is between creating stream id and returning
CreatingHandlerRuns(id) ==
    /\ pc.loop \in {"hsf_add", "hsf_callback"}
    /\ ~pkt.exists
    /\ CurrentFrame.id = id

\* at most one callback per stream, each for a stream that handleStreamFrame
\* created and after the frame was appended to it
CallbackOnlyAfterAppend ==
    \A id \in StreamIDs :
        /\ Cardinality(CallbacksFor(id)) <= 1
        /\ \A i \in CallbacksFor(id) :
              /\ out.peerStreams[id] = "appended"
              /\ out.streamCallback[i].frames >= 1

\* C7 as claimed: every stream that handleStreamFrame has created has had
\* its callback once the handler is through.  Violated: AddStreamFrame
\* rejects the frame that created the stream and the handler returns.
C7_CallbackForEveryCreatedStream ==
    /\ CallbackOnlyAfterAppend
    /\ \A id \in StreamIDs :
          (out.peerStreams[id] # "none" /\ ~CreatingHandlerRuns(id))
              => Cardinality(CallbacksFor(id)) = 1

\* C7 as amended: the callback is invoked exactly once, after the append,
\* for every stream handleStreamFrame creates whose creating frame
\* AddStreamFrame accepts, and not at all when AddStreamFrame rejects it;
\* never for a frame on a stream that already existed.
C7_CallbackOncePerAcceptedStream ==
    /\ CallbackOnlyAfterAppend
    /\ \A id \in StreamIDs :
          /\ (out.peerStreams[id] = "appended" /\ ~CreatingHandlerRuns(id))
                => Cardinality(CallbacksFor(id)) = 1
          /\ out.peerStreams[id] = "rejected" => CallbacksFor(id) = {}

\* a stream of the peer has had its callback, and a later frame was
\* appended to it without another
C7_Witness ==
    /\ Cardinality(CallbacksFor(3)) = 1
    /\ streams[3].st = "live"
    /\ streams[3].frames = 2

(***************************************************************************)
(* C8.  A STREAM frame for a tombstoned id.                                *)
(***************************************************************************)
\* the loop handles a STREAM frame whose table entry is a tombstone
ReopeningStep ==
    /\ pc.loop = "frames"
    /\ pkt.fi <= Len(pkt.p.frames)
    /\ CurrentFrame.type = "STREAM"
    /\ streams[CurrentFrame.id].st = "tomb"
    /\ pc.loop' # pc.loop

\* the handler returns ReopeningStreamsNotAllowed, leaves the table alone
\* and invokes no stream callback
ReopeningRefused ==
    [][ReopeningStep =>
          /\ loopErr' = "ReopeningStreamsNotAllowed"
          /\ pc.loop' = "schedule"
          /\ streams' = streams
          /\ out.streamCallback' = out.streamCallback]_vars

\* Run has dealt with the handler's ReopeningStreamsNotAllowed
ReopeningHandled ==
    loopErr = "ReopeningStreamsNotAllowed" /\ pc.loop \in {"gc", "prelude"}

ConnectionCloseWritten(e) ==
    Written("CONNECTION_CLOSE", ErrorCode(e), 0) \in Range(out.written)

NextIdle ==
    \/ LoopCore \/ OtherFrame \/ Timer \/ CloseStep \/ Handshake
    \/ HandlePacket(PingPacket)
    \/ QueueStreamFrameAdd \/ QueueStreamFrameSchedule

SpecIdle == InitWith(Budget(MaxPackets, MaxAppFrames, 0, FALSE)) /\ [][NextIdle]_vars

CloseSteps == {"c_check", "c_set", "c_send", "c_callback", "c_streams", "c_write"}

\* the loop takes the timeout branch of its select
TimeoutStep == pc.loop = "select" /\ pc.loop' = "c_check"

\* the loop's last Close call is the timeout's, and it has returned
TimedOut == call.loop.err = "NETWORK_IDLE_TIMEOUT" /\ pc.loop \notin CloseSteps

LossAckPacket == Packet(2, "a", "ok", <<Frame("ACK", 0, "lost")>>)
SendPackets == {PingPacket, LossAckPacket}

NextSend ==
    \/ LoopCore \/ OtherFrame \/ CloseStep \/ Handshake
    \/ \E p \in SendPackets : HandlePacket(p)
    \/ QueueStreamFrameAdd \/ QueueStreamFrameSchedule

SpecSend == InitWith(Budget(MaxPackets, MaxAppFrames, 0, TRUE)) /\ [][NextSend]_vars

\* the packets sendPacket has written to the connection
DataWritten == {w.pn : w \in {x \in Range(out.written) : x.kind = "DATA"}}

(***************************************************************************)
(* C11.  A packet is reported to the congestion controller (OnPacketSent)  *)
(* if and only if loss recovery accepted it (SentPacket returned no        *)
(* error), and every packet sendPacket writes has been reported before.    *)
(***************************************************************************)
C11_ReportedIffAccepted ==
    /\ out.onPacketSent = out.sentPacket
    /\ DataWritten \subseteq out.onPacketSent

\* one packet was accepted, reported and written; loss recovery rejected
\* another, which took a packet number and was not reported
C11_Witness ==
    /\ DataWritten # {}
    /\ eng.nextPN - 1 > Cardinality(out.sentPacket)
    /\ loopErr = "SentPacketError"


(***************************************************************************)
(* FairClose: SpecClose with the scheduling of the Go runtime, which lets  *)
(* every goroutine that can run take its next step: the event loop, and    *)
(* the handshake goroutine once it is inside Close.  Nothing is assumed    *)
(* of the peer, of the handshake's outcome or of time.                     *)
(***************************************************************************)
CloseOf(t) ==
    CloseCheck(t) \/ CloseSet(t) \/ CloseSignal(t) \/ CloseCallback(t)
        \/ CloseStreams(t) \/ CloseWrite(t)

LoopSteps ==
    LoopCore \/ ConnectionCloseFrame \/ OtherFrame \/ SelectTimeout \/ CloseOf("loop")

FairClose == SpecClose /\ WF_vars(LoopSteps) /\ WF_vars(CloseOf("hs"))

(***************************************************************************)
(* C12.  Every Close call returns, and once the session is closed Run      *)
(* eventually returns.  Run is the only receiver of closeChan: when the    *)
(* loop and the handshake goroutine both go past the closed test (C1) and  *)
(* the handshake's signal fills the one-slot channel first, the loop's     *)
(* own send waits for a receive that only the loop could make.             *)
(***************************************************************************)
C12_CloseReturnsAndRunReturns ==
    /\ \A t \in Tasks : (pc[t] \in CloseSteps) ~> (pc[t] \notin CloseSteps)
    /\ closed ~> (pc.loop = "returned")


(***************************************************************************)
(* SpecErrors: the errors of the frame handlers.  The peer sends packets   *)
(* whose frames make the handlers and the unpacker return each of their    *)
(* errors, and pings; the handshake may fail at any moment.                *)
(***************************************************************************)
DuplicateAckPacket ==
    Packet(1, "a", "ok", <<Frame("ACK", 0, "DuplicateOrOutOfOrderAck"),
                           Frame("PING", 0, "ok")>>)
EarlyRstPacket ==
    Packet(2, "a", "ok", <<Frame("RST_STREAM", 3, "ok"), Frame("ACK", 0, "ok")>>)
MapAccessPacket == Packet(3, "a", "ok", <<Frame("ACK", 0, "MapAccess")>>)
InvalidStreamPacket == Packet(4, "a", "ok", <<Frame("STREAM", 2, "ok")>>)
StrayWindowUpdatePacket == Packet(5, "a", "ok", <<Frame("WINDOW_UPDATE", 3, "ok")>>)
UndecodablePacket == Packet(6, "a", "INVALID_PACKET", <<>>)
ErrorPackets ==
    {DuplicateAckPacket, EarlyRstPacket, MapAccessPacket, InvalidStreamPacket,
     StrayWindowUpdatePacket, UndecodablePacket, PingPacket}

NextErrors ==
    \/ LoopCore \/ StreamFrameLookup \/ OtherFrame \/ CloseStep \/ Handshake
    \/ \E p \in ErrorPackets : HandlePacket(p)

SpecErrors == InitWith(Budget(MaxPackets, 0, 0, FALSE)) /\ [][NextErrors]_vars

\* the switch of Run on the error of the iteration
DispositionStep == pc.loop = "errcheck" /\ pc.loop' # "errcheck"

SwallowedErrors == {"DuplicateOrOutOfOrderAck", "RstStreamOnInvalidStream"}

(***************************************************************************)
(* C13.  Run's disposition of a handler error: for                         *)
(* DuplicateOrOutOfOrderAck and RstStreamOnInvalidStream the loop makes no *)
(* Close call; for MapAccess and every other error it calls                *)
(* Close(err, true), and the session is closed when that call returns.     *)
(***************************************************************************)
C13_ErrorDisposition ==
    /\ [][DispositionStep =>
            IF loopErr \in SwallowedErrors \cup {NoErr}
            THEN pc.loop' = "gc" /\ call' = call /\ closed' = closed
            ELSE /\ pc.loop' = "c_check"
                 /\ call.loop' = [err |-> loopErr, send |-> TRUE, ret |-> "gc"]]_vars
    /\ [](loopErr \notin SwallowedErrors \cup {NoErr} /\ pc.loop \in {"gc", "prelude"}
            => closed)

\* the loop went on after the duplicate ack of packet 1, and closed the
\* session with a CONNECTION_CLOSE for the MapAccess of packet 3
C13_Witness ==
    /\ 1 \in eng.registered
    /\ loopErr = "MapAccess"
    /\ pc.loop = "gc"
    /\ ConnectionCloseWritten("MapAccess")
    /\ \E c \in Range(out.closeCallback) : c.task = "loop" /\ c.err = "MapAccess"

\* handlePacket returns to Run
HandlePacketReturns ==
    pc.loop \in {"frames", "hsf_new", "hsf_add", "hsf_callback"} /\ pc.loop' = "schedule"

(***************************************************************************)
(* C14.  When a frame fails with an error that Run swallows, the frames    *)
(* after it in the packet are still dispatched: handlePacket returns such  *)
(* an error only from the packet's last frame.  handlePacket returns at    *)
(* the first error of any kind, and the rest of the packet, which the      *)
(* receive-ack engine has registered, is dropped.                          *)
(***************************************************************************)
C14_NoFrameLostAfterSwallowedError ==
    [][(HandlePacketReturns /\ loopErr' \in SwallowedErrors)
          => pkt.fi >= Len(pkt.p.frames)]_vars


\* handlePacket discards the packet it holds: Unpack answers
\* DECRYPTION_FAILURE
DiscardStep ==
    /\ pc.loop = "handlePacket"
    /\ pkt.p.dec = "DECRYPTION_FAILURE"
    /\ pc.loop' # "handlePacket"

(***************************************************************************)
(* C15.  A packet that Unpack rejects with DECRYPTION_FAILURE is treated   *)
(* as never seen: handlePacket returns nil, the session is not closed, no  *)
(* frame is dispatched, the packet is not registered with the receive-ack  *)
(* engine, and the last received packet number and the remote address are  *)
(* as before.  handlePacket stores the packet's number and sets the remote *)
(* address before it calls Unpack.                                         *)
(***************************************************************************)
C15_DiscardedPacketNeverSeen ==
    [][DiscardStep =>
          /\ loopErr' = NoErr
          /\ pc.loop' = "schedule"
          /\ closed' = closed
          /\ call' = call
          /\ eng' = eng
          /\ streams' = streams
          /\ lastRcvdPacketNumber' = lastRcvdPacketNumber
          /\ remoteAddr' = remoteAddr]_vars


(***************************************************************************)
(* FairSend: the send path with the scheduling of the Go runtime: the      *)
(* event loop, the handshake goroutine inside Close and the application    *)
(* inside QueueStreamFrame each take their next step when they can.  The   *)
(* engines answer without errors.                                          *)
(***************************************************************************)
SendLoopSteps == LoopCore \/ OtherFrame \/ CloseOf("loop")

FairSend ==
    /\ InitWith(Budget(MaxPackets, MaxAppFrames, 0, FALSE))
    /\ [][NextSend]_vars
    /\ WF_vars(SendLoopSteps)
    /\ WF_vars(CloseOf("hs"))
    /\ WF_vars(QueueStreamFrameSchedule)

\* a task makes a call of scheduleSending
ScheduleCallStep ==
    \/ pc.app = "q_schedule" /\ pc.app' # "q_schedule"
    \/ pc.loop = "schedule" /\ pc.loop' # "schedule"
    \/ pc.loop = "sp_reschedule" /\ eng.packer > 0 /\ pc.loop' # "sp_reschedule"

(***************************************************************************)
(* C16.  scheduleSending never blocks and at most one egress signal is     *)
(* pending; a call leaves exactly one signal pending, however many calls   *)
(* were made before it; a signal is taken only by the loop starting one    *)
(* sendPacket attempt; and a pending signal leads to a sendPacket attempt  *)
(* unless the session is closed first.                                     *)
(***************************************************************************)
C16_SchedulingCoalesces ==
    /\ [](sendingScheduled \in {0, 1})
    /\ [](pc.app = "q_schedule" => ENABLED QueueStreamFrameSchedule)
    /\ [](pc.loop = "schedule" => ENABLED RunSchedule)
    /\ [](pc.loop = "sp_reschedule" => ENABLED SendPacketReschedule)
    /\ [][ScheduleCallStep => sendingScheduled' = 1]_vars
    /\ [][sendingScheduled' < sendingScheduled
            => pc.loop = "select" /\ pc.loop' = "sendPacket"]_vars
    /\ [](pc.loop = "select" /\ sendingScheduled = 1 => ENABLED SelectSending)
    /\ (sendingScheduled = 1) ~> (pc.loop = "sendPacket" \/ closed)

\* the application's call found the signal of Run's own call pending, and
\* the one signal started a sendPacket attempt that sees the queued frame
C16_Witness ==
    /\ pc.loop = "sendPacket"
    /\ pc.app = "idle"
    /\ budget.app < MaxAppFrames
    /\ eng.packer > 0
    /\ eng.registered # {}
    /\ sendingScheduled = 0
    /\ ~closed


\* task t writes the close packet of its Close call
ClosePacketStep(t) == pc[t] = "c_write" /\ pc[t]' # "c_write"

(***************************************************************************)
(* C17.  When Close writes its close packet, every live stream of the      *)
(* table has had the close error registered.  closeStreamsWithError walks  *)
(* the table once, before the packet is packed and written; NewStream      *)
(* does not look at s.closed, so a stream stored after the walk is in the  *)
(* table at the write without the error.                                   *)
(***************************************************************************)
C17_StreamsNotifiedBeforeClosePacket ==
    [][\A t \in Tasks :
          ClosePacketStep(t) =>
              \A id \in StreamIDs :
                  streams[id].st = "live"
                      => CloseError(call[t].err) \in streams[id].errs]_vars

(***************************************************************************)
(* C20.  handleStreamFrame never goes on with the result of a NewStream    *)
(* call that failed.  The lookup and NewStream take the stream lock        *)
(* separately; when the application stores a stream under the id in        *)
(* between, NewStream fails, its error is dropped (ss, _ :=) and the type  *)
(* assertion on the nil result panics.                                     *)
(***************************************************************************)
C20_NoUseOfFailedNewStream ==
    [][(pc.loop = "hsf_new" /\ pc.loop' # "hsf_new")
          => /\ NewStream(CurrentFrame.id)[1]
             /\ pc.loop' = "hsf_add"]_vars


(***************************************************************************)
(* SpecWindow: flow-control updates for streams that come and go.  The     *)
(* peer opens stream 3 and sends WINDOW_UPDATE frames for it; the          *)
(* application reads the stream to its end, and the loop collects it; the  *)
(* handshake may fail at any moment.                                       *)
(***************************************************************************)
WindowPackets == {StreamPacket, StrayWindowUpdatePacket}

NextWindow ==
    \/ LoopCore \/ StreamFrames \/ OtherFrame \/ CloseStep \/ Handshake
    \/ \E p \in WindowPackets : HandlePacket(p)
    \/ \E id \in StreamIDs : AppReadStream(id)

SpecWindow == InitWith(Budget(MaxPackets, 0, 0, FALSE)) /\ [][NextWindow]_vars

\* the loop handles a WINDOW_UPDATE frame whose table entry is a tombstone
TombstoneWindowUpdateStep ==
    /\ pc.loop = "frames"
    /\ pkt.fi <= Len(pkt.p.frames)
    /\ CurrentFrame.type = "WINDOW_UPDATE"
    /\ CurrentFrame.id \in StreamIDs
    /\ streams[CurrentFrame.id].st = "tomb"
    /\ <<pc.loop, pkt>>' # <<pc.loop, pkt>>

(***************************************************************************)
(* C18.  A WINDOW_UPDATE frame for a tombstoned stream id is answered      *)
(* with an error or does nothing; UpdateFlowControlWindow is not called    *)
(* on the nil entry.  handleWindowUpdateFrame tests only whether the key   *)
(* is in the map, which it is for a tombstone, and makes the call on the   *)
(* nil stream.                                                             *)
(***************************************************************************)
C18_NoWindowUpdateOnTombstone ==
    [][TombstoneWindowUpdateStep =>
          /\ pc.loop' \in {"frames", "schedule"}
          /\ streams' = streams]_vars


\* a close packet has been written to the connection
ClosePacketWritten ==
    \E w \in Range(out.written) : w.kind \in {"CONNECTION_CLOSE", "PUBLIC_RESET"}

(***************************************************************************)
(* C19.  After a close packet has been written, sendPacket writes no       *)
(* packet.  sendPacket does not look at s.closed: when the handshake       *)
(* goroutine's Close writes its packet while the loop is inside            *)
(* sendPacket, or when the loop's select takes a pending egress signal     *)
(* and not the close signal, the loop writes a data packet after it.       *)
(***************************************************************************)
C19_NoPacketAfterClosePacket ==
    [][ClosePacketWritten => \A w \in WrittenNow : w.kind # "DATA"]_vars

=============================================================================
